---------------------------- MODULE Spec2Model ----------------------------
(***************************************************************************)
(* Battleship (src/main.py): the board engine (Dot, Ship, Board), the      *)
(* fleet generator (Game.random_board / Game.try_generate_board) and the   *)
(* turn loop (Player.move, Game.loop).                                     *)
(*                                                                         *)
(* A Dot is the pair <<x, y>>; Dot.__eq__ is structural equality.  The     *)
(* lists busy_dots and shot_dots are only ever appended to and tested      *)
(* with "in", so they are bags: multiplicity is kept, order is dropped.    *)
(***************************************************************************)
EXTENDS Integers, Sequences, FiniteSets, Bags, TLC

VARIABLES
    boards,     \* side -> Board object (fields of class Board)
    result,     \* what the last call did: exception raised / message printed / value returned
    tried,      \* history (board API only): the dots Board.shot has been called with
    pc,         \* which part of the program runs
    num,        \* Game.loop: the turn counter
    won,        \* Game.loop: the winner message printed ("" while none is)
    attempts,   \* Game.try_generate_board: the attempt counter
    placing     \* Game.try_generate_board: index into lens of the length being placed

vars == <<boards, result, tried, pc, num, won, attempts, placing>>

---------------------------------------------------------------------------
(* Program constants *)

Size == 6

_EMPTY_SIGN == "EMPTY"
_SHIP_SIGN == "SHIP"
_CONTOUR_SIGN == "CONTOUR"
_HIT_SIGN == "HIT"
_LOSE_SIGN == "LOSE"

Signs == {_EMPTY_SIGN, _SHIP_SIGN, _CONTOUR_SIGN, _HIT_SIGN, _LOSE_SIGN}

Cells == (0 .. Size - 1) \X (0 .. Size - 1)

\* near with the diagonal offsets left out
nearOrthogonal == << <<-1, 0>>, <<0, -1>>, <<0, 1>>, <<1, 0>> >>

near == << <<-1, -1>>, <<-1, 0>>, <<-1, 1>>,
           <<0, -1>>,             <<0, 1>>,
           <<1, -1>>,  <<1, 0>>,  <<1, 1>> >>

---------------------------------------------------------------------------
(* Bounds of the model *)

\* Board API specification: the number of ships placed, and the number of
\* distinct dots Board.shot is called with
MaxShips == 2
MaxShots == 3

\* Fleet generation: the number of samples of an attempt for which the random
\* source is unconstrained
MaxFree == 8

\* The game: ask returns one of the first UserChoice (the user) or AiChoice
\* (the computer) cells, by rows, that were not shot at yet
UserChoice == 2
AiChoice == 1

---------------------------------------------------------------------------
(* class Ship *)

Ship(bow, length, orientation) ==
    [bow |-> bow, length |-> length, orientation |-> orientation, lives |-> length]

\* dots without the offset i: every dot is the bow
dots_noOffset(ship) == [i \in 1 .. ship.length |-> ship.bow]

\* Ship.dots: the i-th dot (i = 0 .. length-1 in the code, 1 .. length here)
dots(ship) ==
    [i \in 1 .. ship.length |->
        IF ship.orientation = 0 THEN <<ship.bow[1] + (i - 1), ship.bow[2]>>
        ELSE IF ship.orientation = 1 THEN <<ship.bow[1], ship.bow[2] + (i - 1)>>
        ELSE ship.bow]

DotSet(ship) == {dots(ship)[i] : i \in 1 .. ship.length}

\* Ship.shooten / "dot in ship.dots"
shooten(ship, shot) == \E i \in 1 .. ship.length : dots(ship)[i] = shot

---------------------------------------------------------------------------
(* class Board *)

Board(hid) ==
    [field |-> [c \in Cells |-> _EMPTY_SIGN],
     ships |-> <<>>,
     hid |-> hid,
     live_ships |-> 0,
     busy_dots |-> EmptyBag,
     shot_dots |-> EmptyBag]

out(dot) == ~((0 <= dot[1] /\ dot[1] < Size) /\ (0 <= dot[2] /\ dot[2] < Size))

\* __str__ without the replacement of _SHIP_SIGN
str_showsShips(b) ==
    [y \in 0 .. Size - 1 |-> [x \in 0 .. Size - 1 |-> b.field[<<x, y>>]]]

\* Board.__str__: the signs of the text, by rows (y) and, in a row, by columns
\* (x).  The header, the row labels and the separators are the same for every
\* board and hold none of the signs.  str.replace acts on every occurrence of
\* _SHIP_SIGN, which is every ship cell.
__str__(b) ==
    [y \in 0 .. Size - 1 |->
        [x \in 0 .. Size - 1 |->
            IF b.hid /\ b.field[<<x, y>>] = _SHIP_SIGN
            THEN _EMPTY_SIGN
            ELSE b.field[<<x, y>>]]]

\* the dots cur that contour visits: for d in ship.dots: for dx, dy in near
contourCurs(ship) ==
    {<<dots(ship)[i][1] + near[k][1], dots(ship)[i][2] + near[k][2]>> :
        i \in 1 .. ship.length, k \in 1 .. Len(near)}

\* contour recording the cells it marks as shot at
contour_recordsAsShot(b, ship, verb) ==
    LET curs == {cur \in contourCurs(ship) : ~out(cur)}
        marked == {c \in curs : verb /\ b.field[c] # _HIT_SIGN /\ b.field[c] # _LOSE_SIGN}
    IN  [b EXCEPT
            !.field = [c \in Cells |-> IF c \in marked THEN _CONTOUR_SIGN ELSE b.field[c]],
            !.shot_dots = @ (+) SetToBag(marked),
            !.busy_dots = @ (+) SetToBag({cur \in curs : ~BagIn(cur, b.busy_dots)})]

\* contour without the test for _HIT_SIGN
contour_marksOverHits(b, ship, verb) ==
    LET curs == {cur \in contourCurs(ship) : ~out(cur)}
    IN  [b EXCEPT
            !.field = [c \in Cells |->
                          IF verb /\ c \in curs /\ b.field[c] # _LOSE_SIGN
                          THEN _CONTOUR_SIGN
                          ELSE b.field[c]],
            !.busy_dots = @ (+) SetToBag({cur \in curs : ~BagIn(cur, b.busy_dots)})]

\* contour without the test for _LOSE_SIGN
contour_marksOverMisses(b, ship, verb) ==
    LET curs == {cur \in contourCurs(ship) : ~out(cur)}
    IN  [b EXCEPT
            !.field = [c \in Cells |->
                          IF verb /\ c \in curs /\ b.field[c] # _HIT_SIGN
                          THEN _CONTOUR_SIGN
                          ELSE b.field[c]],
            !.busy_dots = @ (+) SetToBag({cur \in curs : ~BagIn(cur, b.busy_dots)})]

\* Board.contour.  The loop writes _CONTOUR_SIGN only, and only tests for
\* _HIT_SIGN and _LOSE_SIGN, and it appends a dot to busy_dots only when the
\* dot is not in it: the order of the visits does not matter, and a dot
\* visited more than once is written and appended as if visited once.
contour(b, ship, verb) ==
    LET curs == {cur \in contourCurs(ship) : ~out(cur)}
    IN  [b EXCEPT
            !.field = [c \in Cells |->
                          IF verb /\ c \in curs
                             /\ b.field[c] # _HIT_SIGN
                             /\ b.field[c] # _LOSE_SIGN
                          THEN _CONTOUR_SIGN
                          ELSE b.field[c]],
            !.busy_dots = @ (+) SetToBag({cur \in curs : ~BagIn(cur, b.busy_dots)})]

\* add_ship's first loop: does any dot of the ship raise BoardWrongShipException
wrongShip(b, ship) ==
    \E i \in 1 .. ship.length :
        out(dots(ship)[i]) \/ BagIn(dots(ship)[i], b.busy_dots)

\* add_ship's second loop marking the field but not recording the dot as busy
RECURSIVE markFrom_noBusy(_, _, _)
markFrom_noBusy(b, ship, k) ==
    IF k > ship.length THEN b
    ELSE markFrom_noBusy([b EXCEPT !.field[dots(ship)[k]] = _SHIP_SIGN], ship, k + 1)

\* add_ship's second loop, from the k-th dot on
RECURSIVE markFrom(_, _, _)
markFrom(b, ship, k) ==
    IF k > ship.length THEN b
    ELSE markFrom([b EXCEPT !.field[dots(ship)[k]] = _SHIP_SIGN,
                            !.busy_dots = @ (+) SetToBag({dots(ship)[k]})],
                  ship, k + 1)

\* add_ship without the call of contour
add_ship_noContour(b, ship) ==
    IF wrongShip(b, ship)
    THEN [board |-> b, raised |-> "BoardWrongShipException"]
    ELSE LET b1 == markFrom(b, ship, 1)
             b2 == [b1 EXCEPT !.ships = Append(@, ship)]
         IN  [board |-> [b2 EXCEPT !.live_ships = @ + 1], raised |-> ""]

\* add_ship with the check and the marking in one loop: the dots before the
\* offending one are already marked when the exception is raised
add_ship_oneLoop(b, ship) ==
    LET bad == {i \in 1 .. ship.length :
                  out(dots(ship)[i]) \/ BagIn(dots(ship)[i], b.busy_dots)}
    IN  IF bad # {}
        THEN LET first == CHOOSE i \in bad : \A j \in bad : i <= j
                 marked == [c \in Cells |->
                              IF \E i \in 1 .. first - 1 : dots(ship)[i] = c
                              THEN _SHIP_SIGN ELSE b.field[c]]
             IN  [board |-> [b EXCEPT !.field = marked],
                  raised |-> "BoardWrongShipException"]
        ELSE LET b1 == markFrom(b, ship, 1)
                 b2 == [b1 EXCEPT !.ships = Append(@, ship)]
                 b3 == contour(b2, ship, FALSE)
             IN  [board |-> [b3 EXCEPT !.live_ships = @ + 1], raised |-> ""]

\* Board.add_ship: the board afterwards and the exception raised ("" for none)
add_ship(b, ship) ==
    IF wrongShip(b, ship)
    THEN [board |-> b, raised |-> "BoardWrongShipException"]
    ELSE LET b1 == markFrom(b, ship, 1)
             b2 == [b1 EXCEPT !.ships = Append(@, ship)]
             b3 == contour(b2, ship, FALSE)
         IN  [board |-> [b3 EXCEPT !.live_ships = @ + 1], raised |-> ""]

\* shotHit without "self.live_ships -= 1"
shotHit_keepsLiveShips(b, dot, i) ==
    LET b1 == [b EXCEPT !.ships[i].lives = @ - 1, !.field[dot] = _HIT_SIGN]
    IN  IF b1.ships[i].lives = 0
        THEN [board |-> contour(b1, b1.ships[i], TRUE),
              raised |-> "", printed |-> "Ship destroyed!", ret |-> TRUE]
        ELSE [board |-> b1, raised |-> "", printed |-> "Ship wounded!", ret |-> TRUE]

\* shotHit testing ship.lives before decrementing it
shotHit_testBeforeDecrement(b, dot, i) ==
    LET b1 == [b EXCEPT !.ships[i].lives = @ - 1, !.field[dot] = _HIT_SIGN]
    IN  IF b.ships[i].lives = 0
        THEN [board |-> contour([b1 EXCEPT !.live_ships = @ - 1], b1.ships[i], TRUE),
              raised |-> "", printed |-> "Ship destroyed!", ret |-> TRUE]
        ELSE [board |-> b1, raised |-> "", printed |-> "Ship wounded!", ret |-> TRUE]

\* shotHit decrementing live_ships on every hit
shotHit_countsEveryHit(b, dot, i) ==
    LET b1 == [b EXCEPT !.ships[i].lives = @ - 1, !.field[dot] = _HIT_SIGN,
                        !.live_ships = @ - 1]
    IN  IF b1.ships[i].lives = 0
        THEN [board |-> contour(b1, b1.ships[i], TRUE),
              raised |-> "", printed |-> "Ship destroyed!", ret |-> TRUE]
        ELSE [board |-> b1, raised |-> "", printed |-> "Ship wounded!", ret |-> TRUE]

\* Board.shot, after the dot was accepted, on the ship with index i that it hits
shotHit(b, dot, i) ==
    LET b1 == [b EXCEPT !.ships[i].lives = @ - 1, !.field[dot] = _HIT_SIGN]
    IN  IF b1.ships[i].lives = 0
        THEN [board |-> contour([b1 EXCEPT !.live_ships = @ - 1], b1.ships[i], TRUE),
              raised |-> "", printed |-> "Ship destroyed!", ret |-> TRUE]
        ELSE [board |-> b1, raised |-> "", printed |-> "Ship wounded!", ret |-> TRUE]

\* Board.shot, after the dot was accepted and no ship holds it
shotMiss(b, dot) ==
    [board |-> [b EXCEPT !.field[dot] = _LOSE_SIGN],
     raised |-> "", printed |-> "Miss!", ret |-> FALSE]

\* shotAccepted recording the dot only when a ship is hit
shotAccepted_recordsHitsOnly(b, dot) ==
    LET hit == {i \in 1 .. Len(b.ships) : shooten(b.ships[i], dot)}
    IN  IF hit # {}
        THEN shotHit([b EXCEPT !.shot_dots = @ (+) SetToBag({dot})], dot,
                     CHOOSE i \in hit : \A j \in hit : i <= j)
        ELSE shotMiss(b, dot)

\* Board.shot: the dot is recorded, then the ships are scanned in list order
shotAccepted(b, dot) ==
    LET b1 == [b EXCEPT !.shot_dots = @ (+) SetToBag({dot})]
        hit == {i \in 1 .. Len(b1.ships) : shooten(b1.ships[i], dot)}
    IN  IF hit # {}
        THEN shotHit(b1, dot, CHOOSE i \in hit : \A j \in hit : i <= j)
        ELSE shotMiss(b1, dot)

\* shot without the test "dot in self.shot_dots"
shot_noUsedCheck(b, dot) ==
    IF out(dot)
    THEN [board |-> b, raised |-> "BoardOutException", printed |-> "", ret |-> FALSE]
    ELSE shotAccepted(b, dot)

\* shot recording the dot before testing whether it was shot at already
shot_recordsBeforeCheck(b, dot) ==
    IF out(dot)
    THEN [board |-> b, raised |-> "BoardOutException", printed |-> "", ret |-> FALSE]
    ELSE IF BagIn(dot, b.shot_dots)
    THEN [board |-> [b EXCEPT !.shot_dots = @ (+) SetToBag({dot})],
          raised |-> "BoardUsedException", printed |-> "", ret |-> FALSE]
    ELSE shotAccepted(b, dot)

\* Board.shot: the board afterwards, the exception raised ("" for none), the
\* message printed and the value returned
shot(b, dot) ==
    IF out(dot)
    THEN [board |-> b, raised |-> "BoardOutException", printed |-> "", ret |-> FALSE]
    ELSE IF BagIn(dot, b.shot_dots)
    THEN [board |-> b, raised |-> "BoardUsedException", printed |-> "", ret |-> FALSE]
    ELSE shotAccepted(b, dot)

---------------------------------------------------------------------------
(* The board API: any sequence of add_ship and shot calls on one board *)

\* The inputs of the calls come from a window at the top right corner of the
\* board.  Bows: columns Size - 3 .. Size of rows 0 and 1: a horizontal ship of
\* length 3 fits, so do two ships that touch only diagonally, and column Size
\* is outside the board.  Shots: row 0 of these columns and a dot of row -1,
\* which is outside the board too.
InCols == (Size - 3) .. Size
BowDots == InCols \X (0 .. 1)
InDots == (InCols \X {0}) \cup {<<Size - 3, -1>>}
InShips == {Ship(bow, length, o) : bow \in BowDots, length \in 1 .. 3, o \in 0 .. 1}

NoResult == [op |-> "none", raised |-> "", printed |-> "", ret |-> FALSE]

Init ==
    /\ boards = [s \in {"user", "ai"} |-> Board(FALSE)]
    /\ result = NoResult
    /\ tried = {}
    /\ pc = "api"
    /\ num = 0
    /\ won = ""
    /\ attempts = 0
    /\ placing = 1

AddShip(ship) ==
    /\ pc = "api"
    /\ Len(boards["user"].ships) < MaxShips
    /\ LET r == add_ship(boards["user"], ship)
       IN  /\ boards' = [boards EXCEPT !["user"] = r.board]
           /\ result' = [op |-> "add_ship", raised |-> r.raised, printed |-> "", ret |-> FALSE]
    /\ UNCHANGED <<tried, pc, num, won, attempts, placing>>

Shot(dot) ==
    /\ pc = "api"
    /\ dot \in tried \/ Cardinality(tried) < MaxShots
    /\ LET r == shot(boards["user"], dot)
       IN  /\ boards' = [boards EXCEPT !["user"] = r.board]
           /\ result' = [op |-> "shot", raised |-> r.raised, printed |-> r.printed, ret |-> r.ret]
    /\ tried' = tried \cup {dot}
    /\ UNCHANGED <<pc, num, won, attempts, placing>>

Next ==
    \/ \E ship \in InShips : AddShip(ship)
    \/ \E dot \in InDots : Shot(dot)

Spec == Init /\ [][Next]_vars

---------------------------------------------------------------------------
(* Game.random_board and Game.try_generate_board, building the "user" board *)

lens == <<3, 2, 2, 1, 1, 1, 1>>

attemptsCeiling == 2000

\* The values <<x, y, orientation>> the three random.randint calls of one
\* sample yield.  With these nine, 48 orders of placing a whole fleet exist,
\* and so do partial placements that cannot be completed.  Some of them no
\* sample of these nine extends: after <<1, 1, 0>> as the ship of length 3 and
\* <<4, 2, 0>> as a ship of length 2 no second ship of length 2 fits.  Others
\* no sample at all extends: after <<1, 4, 0>> as the ship of length 3,
\* <<1, 1, 0>> and <<4, 2, 0>> as the ships of length 2 and <<5, 0, 0>> and
\* <<5, 4, 0>> as two ships of length 1, every cell of the board is busy.
GenTape == << <<0, 0, 0>>, <<1, 1, 0>>, <<4, 2, 0>>, <<0, 4, 1>>,
              <<2, 3, 0>>, <<5, 0, 0>>, <<5, 4, 0>>, <<2, 5, 1>>,
              <<1, 4, 0>> >>

GenDraws == {GenTape[i] : i \in 1 .. Len(GenTape)}

\* what the random source may yield for the n-th sample of an attempt: any of
\* GenDraws for the first MaxFree samples, and from then on GenDraws in turn,
\* so that a placement that can be completed is, and one that cannot runs
\* into the ceiling
randomSource(n) ==
    IF n <= MaxFree THEN GenDraws ELSE {GenTape[(n % Len(GenTape)) + 1]}

GenInit ==
    /\ boards = [s \in {"user", "ai"} |-> Board(FALSE)]
    /\ result = NoResult
    /\ tried = {}
    /\ pc = "random_board"
    /\ num = 0
    /\ won = ""
    /\ attempts = 0
    /\ placing = 1

\* GenSample with a counter per length: attempts starts again at 0 when a ship
\* is placed
GenSample_countsPerLength(x, y, o) ==
    /\ pc = "random_board"
    /\ attempts + 1 <= attemptsCeiling
    /\ <<x, y, o>> \in randomSource(attempts + 1)
    /\ LET r == add_ship(boards["user"], Ship(<<x, y>>, lens[placing], o))
       IN  /\ boards' = [boards EXCEPT !["user"] = r.board]
           /\ result' = [op |-> "add_ship", raised |-> r.raised, printed |-> "", ret |-> FALSE]
           /\ attempts' = IF r.raised = "" THEN 0 ELSE attempts + 1
           /\ placing' = IF r.raised = "" THEN placing + 1 ELSE placing
           /\ pc' = IF r.raised = "" /\ placing + 1 > Len(lens)
                    THEN "returned" ELSE "random_board"
    /\ UNCHANGED <<tried, num, won>>

\* one pass of try_generate_board's inner loop below the ceiling: a ship of
\* the current length is sampled and offered to add_ship; when the last length
\* is placed try_generate_board returns the board and random_board returns it
GenSample(x, y, o) ==
    /\ pc = "random_board"
    /\ attempts + 1 <= attemptsCeiling
    /\ <<x, y, o>> \in randomSource(attempts + 1)
    /\ attempts' = attempts + 1
    /\ LET r == add_ship(boards["user"], Ship(<<x, y>>, lens[placing], o))
       IN  /\ boards' = [boards EXCEPT !["user"] = r.board]
           /\ result' = [op |-> "add_ship", raised |-> r.raised, printed |-> "", ret |-> FALSE]
           /\ placing' = IF r.raised = "" THEN placing + 1 ELSE placing
           /\ pc' = IF r.raised = "" /\ placing + 1 > Len(lens)
                    THEN "returned" ELSE "random_board"
    /\ UNCHANGED <<tried, num, won>>

\* GenGiveUp handing the partly filled board back instead of None
GenGiveUp_returnsPartial ==
    /\ pc = "random_board"
    /\ attempts + 1 > attemptsCeiling
    /\ attempts' = attempts + 1
    /\ pc' = "returned"
    /\ result' = [op |-> "try_generate_board", raised |-> "", printed |-> "", ret |-> FALSE]
    /\ UNCHANGED <<boards, tried, num, won, placing>>

\* the pass of the inner loop that exceeds the ceiling: try_generate_board
\* returns None, and random_board calls it again (a new Board, attempts = 0)
GenGiveUp ==
    /\ pc = "random_board"
    /\ attempts + 1 > attemptsCeiling
    /\ boards' = [boards EXCEPT !["user"] = Board(FALSE)]
    /\ attempts' = 0
    /\ placing' = 1
    /\ result' = [op |-> "try_generate_board", raised |-> "", printed |-> "None", ret |-> FALSE]
    /\ UNCHANGED <<tried, pc, num, won>>

GenNext ==
    \/ \E d \in GenDraws : GenSample(d[1], d[2], d[3])
    \/ GenGiveUp

GenSpec == GenInit /\ [][GenNext]_vars

\* try_generate_board and random_board are loops of one thread: while a pass
\* can be made, one is
GenFairSpec == GenInit /\ [][GenNext]_vars /\ WF_vars(GenNext)

---------------------------------------------------------------------------
(* Game.__init__, Player.move and Game.loop *)

\* Two fleets random_board can return, as the samples add_ship accepted
FleetA == << <<0, 0, 0>>, <<4, 2, 0>>, <<0, 4, 1>>,
             <<5, 0, 0>>, <<5, 4, 0>>, <<2, 5, 1>>, <<2, 3, 0>> >>
FleetB == << <<3, 5, 0>>, <<0, 0, 1>>, <<2, 2, 0>>,
             <<2, 0, 1>>, <<5, 1, 0>>, <<0, 3, 1>>, <<5, 3, 1>> >>

Fleets == {FleetA, FleetB}

\* the board try_generate_board returns when add_ship accepts the samples of
\* fleet one after the other, from the k-th on
RECURSIVE boardFrom(_, _, _)
boardFrom(b, fleet, k) ==
    IF k > Len(lens) THEN b
    ELSE boardFrom(add_ship(b, Ship(<<fleet[k][1], fleet[k][2]>>, lens[k], fleet[k][3])).board,
                   fleet, k + 1)

random_board(fleet) == boardFrom(Board(FALSE), fleet, 1)

\* Game.__init__: both boards are generated, the computer's board is hidden
GameInit ==
    /\ \E fu \in Fleets, fa \in Fleets :
           boards = [s \in {"user", "ai"} |->
                        IF s = "user" THEN random_board(fu)
                        ELSE [random_board(fa) EXCEPT !.hid = TRUE]]
    /\ result = NoResult
    /\ tried = {}
    /\ pc = "loop"
    /\ num = 0
    /\ won = ""
    /\ attempts = 0
    /\ placing = 1

\* Game.loop: who moves when the turn counter is n, and the board shot at
mover(n) == IF n % 2 = 0 THEN "user" ELSE "ai"
\* enemy when each Player is constructed with its own board as enemy
enemy_isOwnBoard(side) == side

enemy(side) == IF side = "user" THEN "ai" ELSE "user"

\* the number of a cell when the cells are counted by rows
rank(c) == c[2] * Size + c[1]

\* The dots ask may return: one of the first few cells, by rows, not shot at
\* yet, or the first cell shot at already (which shot rejects).  User.ask only
\* returns dots of the board (lines 233-237), AI.ask draws them from 0 .. 5.
askChoices(side, b) ==
    LET fired == {c \in Cells : BagIn(c, b.shot_dots)}
        free == Cells \ fired
    IN  {c \in fired : \A e \in fired : rank(c) <= rank(e)}
            \cup {c \in free : Cardinality({e \in free : rank(e) < rank(c)})
                                   < IF side = "user" THEN UserChoice ELSE AiChoice}

\* loopAfterMove without the two "break"
loopAfterMove_noBreak(bs, n, repeat) ==
    LET n1 == IF repeat THEN n - 1 ELSE n
    IN  IF bs["ai"].live_ships = 0
        THEN [pc |-> "loop", won |-> "User won!", num |-> n1 + 1]
        ELSE IF bs["user"].live_ships = 0
        THEN [pc |-> "loop", won |-> "Computer won!", num |-> n1 + 1]
        ELSE [pc |-> "loop", won |-> "", num |-> n1 + 1]

\* loopAfterMove without "if repeat: num -= 1"
loopAfterMove_noRepeat(bs, n, repeat) ==
    IF bs["ai"].live_ships = 0
    THEN [pc |-> "over", won |-> "User won!", num |-> n]
    ELSE IF bs["user"].live_ships = 0
    THEN [pc |-> "over", won |-> "Computer won!", num |-> n]
    ELSE [pc |-> "loop", won |-> "", num |-> n + 1]

\* loopAfterMove testing live_ships only when the turn passes
loopAfterMove_checksOnMiss(bs, n, repeat) ==
    IF repeat THEN [pc |-> "loop", won |-> "", num |-> n]
    ELSE IF bs["ai"].live_ships = 0
    THEN [pc |-> "over", won |-> "User won!", num |-> n]
    ELSE IF bs["user"].live_ships = 0
    THEN [pc |-> "over", won |-> "Computer won!", num |-> n]
    ELSE [pc |-> "loop", won |-> "", num |-> n + 1]

\* Game.loop after move returned repeat: the turn counter, the winner
\* message, and whether the loop goes on
loopAfterMove(bs, n, repeat) ==
    LET n1 == IF repeat THEN n - 1 ELSE n
    IN  IF bs["ai"].live_ships = 0
        THEN [pc |-> "over", won |-> "User won!", num |-> n1]
        ELSE IF bs["user"].live_ships = 0
        THEN [pc |-> "over", won |-> "Computer won!", num |-> n1]
        ELSE [pc |-> "loop", won |-> "", num |-> n1 + 1]

\* Move returning False when shot raises, so that the turn passes
Move_returnsOnReject(target) ==
    /\ pc = "loop"
    /\ LET r == shot(boards[enemy(mover(num))], target)
           bs == [boards EXCEPT ![enemy(mover(num))] = r.board]
           after == loopAfterMove(bs, num, r.ret)
       IN  /\ boards' = bs
           /\ result' = [op |-> "shot", raised |-> r.raised, printed |-> r.printed, ret |-> r.ret]
           /\ pc' = after.pc
           /\ num' = after.num
           /\ won' = after.won
    /\ UNCHANGED <<tried, attempts, placing>>

\* One pass of Player.move's loop inside Game.loop: ask returns target and
\* the enemy board is shot at.  A rejected shot is printed and move asks
\* again; an accepted one ends the move, and the rest of Game.loop's pass runs.
Move(target) ==
    /\ pc = "loop"
    /\ LET r == shot(boards[enemy(mover(num))], target)
           bs == [boards EXCEPT ![enemy(mover(num))] = r.board]
           after == loopAfterMove(bs, num, r.ret)
       IN  /\ boards' = bs
           /\ result' = [op |-> "shot", raised |-> r.raised, printed |-> r.printed, ret |-> r.ret]
           /\ IF r.raised # ""
              THEN UNCHANGED <<pc, num, won>>
              ELSE /\ pc' = after.pc
                   /\ num' = after.num
                   /\ won' = after.won
    /\ UNCHANGED <<tried, attempts, placing>>

\* User.ask reads "stop": exit(0)
Stop ==
    /\ pc = "loop"
    /\ mover(num) = "user"
    /\ pc' = "exit"
    /\ UNCHANGED <<boards, result, tried, num, won, attempts, placing>>

GameNext ==
    \/ \E target \in askChoices(mover(num), boards[enemy(mover(num))]) : Move(target)
    \/ Stop

GameSpec == GameInit /\ [][GameNext]_vars

\* a pass of Player.move's loop in which ask returns a dot that shot accepts
MoveAccepted ==
    \E target \in askChoices(mover(num), boards[enemy(mover(num))]) :
        Move(target) /\ result'.raised = ""

\* MoveAccepted can be taken exactly when the loop runs and a cell of the
\* enemy board was not shot at yet: ask may return every such cell that comes
\* first by rows, and shot accepts it
MoveEnabled ==
    /\ pc = "loop"
    /\ \E c \in Cells : ~BagIn(c, boards[enemy(mover(num))].shot_dots)

\* The game with fair players: Game.loop is a loop of one thread, and a player
\* who is asked again and again returns, in the end, a dot not shot at yet.
\* This is weak fairness of MoveAccepted, WF_vars(MoveAccepted), written out
\* with MoveEnabled for ENABLED <<MoveAccepted>>_vars.
GameFairSpec ==
    /\ GameInit
    /\ [][GameNext]_vars
    /\ []<>~MoveEnabled \/ []<><<MoveAccepted>>_vars

---------------------------------------------------------------------------
(* Properties of the board API, checked under Spec *)

Sides == {"user", "ai"}

\* every dot of the board and of the ring of dots just outside it
AllDots == (-1 .. Size) \X (-1 .. Size)

\* the dots d and e coincide or are 8-adjacent
Touch(d, e) ==
    /\ d[1] - e[1] \in -1 .. 1
    /\ d[2] - e[2] \in -1 .. 1

\* the dots occupied by the ships of board b
Occupied(b) == UNION {DotSet(b.ships[i]) : i \in 1 .. Len(b.ships)}

Afloat(b) == {i \in 1 .. Len(b.ships) : b.ships[i].lives > 0}

\* C1: a shot rejected with BoardOutException or BoardUsedException leaves the
\* board as it was: on every reachable board and for every dot, the board after
\* a rejected shot (shot_dots, field, every ship's lives, live_ships, busy_dots)
\* equals the board before it.
C1_RejectedShotKeepsBoard ==
    \A d \in AllDots :
        LET r == shot(boards["user"], d)
        IN  r.raised \in {"BoardOutException", "BoardUsedException"}
                => r.board = boards["user"]

\* a shot was rejected as already fired on a board that holds a sunk ship
C1_Witness ==
    /\ result.op = "shot"
    /\ result.raised = "BoardUsedException"
    /\ \E i \in 1 .. Len(boards["user"].ships) : boards["user"].ships[i].lives = 0

\* C2: on every reachable board add_ship accepts a ship if and only if all its
\* dots are on the board and none of them coincides with or is 8-adjacent to a
\* dot of a ship already on the board; hence no two distinct ships on a board
\* have dots that coincide or touch, diagonally included.
C2_Legal(b, ship) ==
    \A d \in DotSet(ship) :
        /\ d \in Cells
        /\ \A e \in Occupied(b) : ~Touch(d, e)

C2_AddShipIffLegal ==
    /\ \A ship \in InShips :
           add_ship(boards["user"], ship).raised = "" <=> C2_Legal(boards["user"], ship)
    /\ \A i, j \in 1 .. Len(boards["user"].ships) :
           i # j => \A d \in DotSet(boards["user"].ships[i]) :
                        \A e \in DotSet(boards["user"].ships[j]) : ~Touch(d, e)

\* a second ship was accepted while a ship that only touches the first one
\* diagonally is rejected
C2_Witness ==
    /\ result.op = "add_ship"
    /\ result.raised = ""
    /\ Len(boards["user"].ships) = 2
    /\ \E ship \in InShips :
           /\ add_ship(boards["user"], ship).raised = "BoardWrongShipException"
           /\ \A d \in DotSet(ship) :
                  /\ d \in Cells
                  /\ \A e \in Occupied(boards["user"]) : d[1] # e[1] /\ d[2] # e[2]

\* C3: in every step, every ship's lives stays or drops by one and never goes
\* below 0 (so it reaches 0 once and stays there); the shot that drops it to 0
\* prints "Ship destroyed!", every shot that drops it to a positive value
\* prints "Ship wounded!", and neither message is printed by any other shot.
C3_Step ==
    LET b == boards["user"]
        b2 == boards'["user"]
        lost == {i \in 1 .. Len(b.ships) : b2.ships[i].lives < b.ships[i].lives}
    IN  /\ Len(b2.ships) >= Len(b.ships)
        /\ \A i \in 1 .. Len(b.ships) :
               /\ b2.ships[i].lives >= 0
               /\ b2.ships[i].lives \in {b.ships[i].lives, b.ships[i].lives - 1}
        /\ \A i \in lost :
               /\ result'.op = "shot"
               /\ result'.printed = IF b2.ships[i].lives = 0
                                    THEN "Ship destroyed!" ELSE "Ship wounded!"
        /\ result'.printed \in {"Ship destroyed!", "Ship wounded!"} /\ b2 # b
               => Cardinality(lost) = 1

C3_SunkExactlyOnLastHit == [][C3_Step]_vars

\* the third hit on a ship of length 3 sank it
C3_Witness ==
    /\ result.printed = "Ship destroyed!"
    /\ \E i \in 1 .. Len(boards["user"].ships) :
           /\ boards["user"].ships[i].length = 3
           /\ boards["user"].ships[i].lives = 0

\* C4 as stated: a dot that shot was called with before is always rejected with
\* BoardUsedException when shot is called with it again.
C4_SecondCallAlwaysUsed ==
    \A d \in tried : shot(boards["user"], d).raised = "BoardUsedException"

\* C4 as amended: a dot shot was not yet called with is accepted or rejected
\* with BoardOutException only; a dot shot was called with before is always
\* rejected: with BoardUsedException when it is on the board, and with
\* BoardOutException again when it is not.
C4_SecondCallRejected ==
    \A d \in AllDots :
        LET r == shot(boards["user"], d)
        IN  /\ d \notin tried => r.raised \in {"", "BoardOutException"}
            /\ d \in tried /\ ~out(d) => r.raised = "BoardUsedException"
            /\ d \in tried /\ out(d) => r.raised = "BoardOutException"

\* a dot was rejected as already fired after another dot was shot at too
C4_Witness ==
    /\ result.op = "shot"
    /\ result.raised = "BoardUsedException"
    /\ Cardinality(tried \cap Cells) >= 2

\* C5: on every reachable board live_ships is the number of ships whose lives
\* is greater than 0.
C5_LiveShipsCountsAfloat ==
    boards["user"].live_ships = Cardinality(Afloat(boards["user"]))

\* one of two ships was sunk
C5_Witness ==
    /\ Len(boards["user"].ships) = 2
    /\ Cardinality(Afloat(boards["user"])) = 1
    /\ result.printed = "Ship destroyed!"

\* C9: on every reachable board add_ship rejects every ship one of whose dots
\* is off the board or in busy_dots; a rejected add_ship leaves the board as it
\* was (field, ships, busy_dots, live_ships), and add_ship of the same ship on
\* the board it leaves is rejected again.
C9_AddShipAllOrNothing ==
    \A ship \in InShips :
        LET r == add_ship(boards["user"], ship)
        IN  /\ (\E d \in DotSet(ship) : out(d) \/ BagIn(d, boards["user"].busy_dots))
                   => r.raised = "BoardWrongShipException"
            /\ r.raised = "BoardWrongShipException"
                   => /\ r.board = boards["user"]
                      /\ add_ship(r.board, ship).raised = "BoardWrongShipException"

\* a ship was rejected on a board for which a ship exists that lies on the
\* board, whose bow is not busy and one of whose later dots is
C9_Witness ==
    /\ result.op = "add_ship"
    /\ result.raised = "BoardWrongShipException"
    /\ Len(boards["user"].ships) = 1
    /\ \E ship \in InShips :
           /\ \A d \in DotSet(ship) : ~out(d)
           /\ ~BagIn(ship.bow, boards["user"].busy_dots)
           /\ \E d \in DotSet(ship) : BagIn(d, boards["user"].busy_dots)

\* C10: on every reachable board every dot occupied by a ship is in busy_dots,
\* and busy_dots holds at least as many distinct dots as the ships occupy.
C10_OccupiedAreBusy ==
    /\ \A d \in Occupied(boards["user"]) : BagIn(d, boards["user"].busy_dots)
    /\ Cardinality(BagToSet(boards["user"].busy_dots))
           >= Cardinality(Occupied(boards["user"]))

\* two ships are on the board and one of them was sunk
C10_Witness ==
    /\ Len(boards["user"].ships) = 2
    /\ result.printed = "Ship destroyed!"

\* C11: shot_dots only grows, by one dot per accepted shot: on every reachable
\* board and for every dot, an accepted shot leaves shot_dots with exactly that
\* dot appended, a rejected shot leaves shot_dots as it was, and so does every
\* add_ship; no dot is held by shot_dots more than once, and shot_dots holds
\* dots of the board only.
C11_ShotDotsGrowsByOne ==
    /\ \A d \in AllDots :
           LET r == shot(boards["user"], d)
           IN  r.board.shot_dots = IF r.raised = ""
                                   THEN boards["user"].shot_dots (+) SetToBag({d})
                                   ELSE boards["user"].shot_dots
    /\ \A ship \in InShips :
           add_ship(boards["user"], ship).board.shot_dots = boards["user"].shot_dots
    /\ \A d \in BagToSet(boards["user"].shot_dots) :
           CopiesIn(d, boards["user"].shot_dots) = 1 /\ d \in Cells

\* two shots were accepted, and the last call, at a dot shot at before or at a
\* dot outside the board, was rejected
C11_Witness ==
    /\ result.op = "shot"
    /\ result.raised # ""
    /\ BagCardinality(boards["user"].shot_dots) = 2
    /\ Cardinality(tried) = 3

\* C12: for every ship add_ship may be called with (bows on and off the board,
\* lengths 1 to 3, both orientations) and every ship on a reachable board,
\* dots is a list of exactly length dots, pairwise distinct; its i-th dot
\* (counted from 0) is the bow moved by i along x when the orientation is 0
\* and along y when it is 1, the other coordinate being the bow's.
C12_DotsInLine ==
    \A ship \in InShips \cup {boards["user"].ships[k] : k \in 1 .. Len(boards["user"].ships)} :
        /\ DOMAIN dots(ship) = 1 .. ship.length
        /\ Cardinality(DotSet(ship)) = ship.length
        /\ \A i \in 0 .. ship.length - 1 :
               /\ ship.orientation = 0 =>
                      /\ dots(ship)[i + 1][1] = ship.bow[1] + i
                      /\ dots(ship)[i + 1][2] = ship.bow[2]
               /\ ship.orientation = 1 =>
                      /\ dots(ship)[i + 1][1] = ship.bow[1]
                      /\ dots(ship)[i + 1][2] = ship.bow[2] + i

\* a vertical ship of length 3 and a ship of orientation 0 are on the board
C12_Witness ==
    /\ result.op = "add_ship"
    /\ result.raised = ""
    /\ \E i, j \in 1 .. Len(boards["user"].ships) :
           /\ boards["user"].ships[i].orientation = 1
           /\ boards["user"].ships[i].length = 3
           /\ boards["user"].ships[j].orientation = 0

\* the cells of the board that are dots of the ship or 8-adjacent to one
C14_Ring(ship) == {c \in Cells : \E e \in DotSet(ship) : Touch(c, e)}

\* C14: on every reachable board, after a shot that prints "Ship destroyed!"
\* exactly one ship went from afloat to sunk; every cell of the board that is
\* 8-adjacent to a dot of that ship is marked as hit, miss or contour; the
\* cells among them that were marked as hit or miss before the shot keep their
\* mark; and no cell away from the ship is changed at all.
C14_SunkShipIsRinged ==
    \A d \in Cells :
        LET b == boards["user"]
            r == shot(b, d)
            sunk == {i \in 1 .. Len(b.ships) :
                        b.ships[i].lives > 0 /\ r.board.ships[i].lives = 0}
        IN  r.printed = "Ship destroyed!" =>
                /\ Cardinality(sunk) = 1
                /\ \A i \in sunk :
                       /\ d \in DotSet(b.ships[i])
                       /\ \A c \in C14_Ring(b.ships[i]) :
                              /\ r.board.field[c] \in {_HIT_SIGN, _LOSE_SIGN, _CONTOUR_SIGN}
                              /\ b.field[c] \in {_HIT_SIGN, _LOSE_SIGN}
                                     => r.board.field[c] = b.field[c]
                       /\ \A c \in Cells \ C14_Ring(b.ships[i]) :
                              r.board.field[c] = b.field[c]

\* the last shot sank a ship next to which a shot had missed, and marked a
\* contour cell
C14_Witness ==
    /\ result.printed = "Ship destroyed!"
    /\ \E i \in 1 .. Len(boards["user"].ships) :
           /\ boards["user"].ships[i].lives = 0
           /\ \E c, e \in C14_Ring(boards["user"].ships[i]) :
                  /\ boards["user"].field[c] = _LOSE_SIGN
                  /\ boards["user"].field[e] = _CONTOUR_SIGN

\* C18: on every reachable board and for every dot, shot, whatever it prints
\* or raises, leaves the list of ships as long as it was, every ship's bow,
\* length and orientation as they were, and busy_dots as it was; every cell of
\* the board that is a dot of a ship or 8-adjacent to one, which are the cells
\* contour visits when the ship is sunk, is in busy_dots already.
C18_ShotKeepsShipsAndBusyDots ==
    LET b == boards["user"]
    IN  /\ \A d \in AllDots :
               LET r == shot(b, d)
               IN  /\ r.board.busy_dots = b.busy_dots
                   /\ Len(r.board.ships) = Len(b.ships)
                   /\ \A i \in 1 .. Len(b.ships) :
                          /\ r.board.ships[i].bow = b.ships[i].bow
                          /\ r.board.ships[i].length = b.ships[i].length
                          /\ r.board.ships[i].orientation = b.ships[i].orientation
        /\ \A i \in 1 .. Len(b.ships) :
               \A c \in C14_Ring(b.ships[i]) : BagIn(c, b.busy_dots)

\* the last shot sank a ship of length 2, and contour marked its neighbours
C18_Witness ==
    /\ result.op = "shot"
    /\ result.printed = "Ship destroyed!"
    /\ \E i \in 1 .. Len(boards["user"].ships) :
           /\ boards["user"].ships[i].length = 2
           /\ boards["user"].ships[i].lives = 0
           /\ \E c \in C14_Ring(boards["user"].ships[i]) :
                  boards["user"].field[c] = _CONTOUR_SIGN

---------------------------------------------------------------------------
(* Properties of the fleet generator, checked under GenSpec and GenFairSpec *)

\* C6: the board random_board returns holds exactly 7 ships, of lengths
\* 3, 2, 2, 1, 1, 1, 1 in the order they were placed, occupying 11 cells, with
\* live_ships = 7; a try_generate_board that gave up (None) is never what
\* random_board returns.
C6_ReturnedBoardIsWholeFleet ==
    /\ pc = "returned" =>
           /\ Len(boards["user"].ships) = 7
           /\ \A k \in 1 .. 7 : boards["user"].ships[k].length = <<3, 2, 2, 1, 1, 1, 1>>[k]
           /\ Cardinality(Occupied(boards["user"])) = 11
           /\ boards["user"].live_ships = 7
    /\ result.printed = "None" => pc = "random_board" /\ boards["user"] = Board(FALSE)

\* random_board returned a board after add_ship rejected some of the samples
C6_Witness ==
    /\ pc = "returned"
    /\ attempts > Len(lens)

\* C16, every step: a pass of the inner loop either samples one ship, offers
\* it to add_ship and adds one to attempts, whatever the length and whether or
\* not the ship was placed; or finds attempts at the ceiling and gives up,
\* handing back None; try_generate_board returns a board only with the seventh
\* ship placed.
C16_Step ==
    \/ /\ result'.op = "add_ship"
       /\ attempts' = attempts + 1
       /\ placing' = IF result'.raised = "" THEN placing + 1 ELSE placing
       /\ Len(boards'["user"].ships) = placing' - 1
       /\ pc' = "returned" <=> placing' > Len(lens)
    \/ /\ result'.printed = "None"
       /\ attempts = attemptsCeiling
       /\ placing <= Len(lens)
       /\ pc' = "random_board"

\* C16: attempts counts the samples of one try_generate_board, for all seven
\* lengths together, and never exceeds 2000; every try_generate_board that was
\* begun ends, with the board of seven ships or with None, and never with a
\* board of fewer ships.
C16_AttemptTerminates ==
    /\ [](attempts \in 0 .. attemptsCeiling)
    /\ [](pc = "returned" => Len(boards["user"].ships) = Len(lens))
    /\ [][C16_Step]_vars
    /\ (pc = "random_board" /\ result.printed # "None")
           ~> (pc = "returned" \/ result.printed = "None")

\* 2000 samples were made, some ships are placed, and no ship of the next
\* length fits anywhere on the board
C16_Witness ==
    /\ pc = "random_board"
    /\ attempts = attemptsCeiling
    /\ placing > 1
    /\ \A c \in Cells, o \in 0 .. 1 :
           wrongShip(boards["user"], Ship(c, lens[placing], o))

---------------------------------------------------------------------------
(* Properties of the game, checked under GameSpec *)

\* a step in which a move was completed: shot accepted the target
MoveCompleted ==
    /\ pc = "loop"
    /\ result'.op = "shot"
    /\ result'.raised = ""
    /\ boards' # boards

\* C7: after a completed move whose shot printed "Ship wounded!" or "Ship
\* destroyed!", and with the game not over, the same player makes the next
\* move; after a completed move whose shot printed "Miss!" the game is not
\* over and the other player makes the next move.
C7_Step ==
    MoveCompleted =>
        /\ result'.printed \in {"Ship wounded!", "Ship destroyed!"} /\ pc' = "loop"
               => mover(num') = mover(num)
        /\ result'.printed = "Miss!"
               => pc' = "loop" /\ mover(num') = enemy(mover(num))

C7_TurnProtocol == [][C7_Step]_vars

\* the computer hit a ship and it is the computer's move again, after the
\* user had a hit and a miss
C7_Witness ==
    /\ pc = "loop"
    /\ mover(num) = "ai"
    /\ result.printed \in {"Ship wounded!", "Ship destroyed!"}
    /\ \E c \in Cells : boards["ai"].field[c] = _HIT_SIGN
    /\ \E c \in Cells : boards["ai"].field[c] = _LOSE_SIGN

\* C8: while the loop runs both boards have live ships; the loop ends in the
\* very step of the first move that leaves a board with live_ships = 0, the
\* board left so is the one shot at, the player who made that move is the
\* one declared winner, and once the loop has ended no board changes.
C8_State ==
    /\ pc = "loop" => /\ boards["user"].live_ships > 0
                      /\ boards["ai"].live_ships > 0
                      /\ won = ""
    /\ pc = "over" => \/ won = "User won!" /\ boards["ai"].live_ships = 0
                                           /\ boards["user"].live_ships > 0
                      \/ won = "Computer won!" /\ boards["user"].live_ships = 0
                                               /\ boards["ai"].live_ships > 0

C8_Step ==
    /\ MoveCompleted =>
           /\ pc' = "over" <=> boards'[enemy(mover(num))].live_ships = 0
           /\ pc' = "over" =>
                  won' = IF mover(num) = "user" THEN "User won!" ELSE "Computer won!"
    /\ pc = "over" => boards' = boards /\ pc' = "over"

C8_GameEnd == []C8_State /\ [][C8_Step]_vars

\* the computer won
C8_Witness ==
    /\ pc = "over"
    /\ won = "Computer won!"
    /\ boards["user"].live_ships = 0

\* the board that agrees with b on the cells marked as hit, miss or contour
\* and holds the ships of fleet in the other cells
C13_Other(b, fleet) ==
    LET ships == UNION {DotSet(Ship(<<fleet[k][1], fleet[k][2]>>, lens[k], fleet[k][3])) :
                           k \in 1 .. Len(lens)}
    IN  [b EXCEPT !.field = [c \in Cells |->
                                IF b.field[c] \in {_HIT_SIGN, _LOSE_SIGN, _CONTOUR_SIGN}
                                THEN b.field[c]
                                ELSE IF c \in ships THEN _SHIP_SIGN ELSE _EMPTY_SIGN]]

\* C13: the text of the hidden board (the computer's) does not tell ship cells
\* from empty ones: it is the text of every board that agrees with it on the
\* cells marked as hit, miss or contour and has other ships, or one more or one
\* less ship cell, in the remaining cells; the cells marked as hit, miss or
\* contour show their own signs.
C13_Concealment ==
    LET b == boards["ai"]
    IN  /\ b.hid
        /\ \A fleet \in Fleets : __str__(C13_Other(b, fleet)) = __str__(b)
        /\ \A c \in Cells :
               /\ b.field[c] = _SHIP_SIGN =>
                      __str__([b EXCEPT !.field[c] = _EMPTY_SIGN]) = __str__(b)
               /\ b.field[c] = _EMPTY_SIGN =>
                      __str__([b EXCEPT !.field[c] = _SHIP_SIGN]) = __str__(b)
               /\ b.field[c] \in {_HIT_SIGN, _LOSE_SIGN, _CONTOUR_SIGN} =>
                      __str__(b)[c[2]][c[1]] = b.field[c]

\* the computer's board holds cells of all five kinds, and the two fleets
\* differ in the cells not yet marked
C13_Witness ==
    /\ pc = "loop"
    /\ \A s \in Signs : \E c \in Cells : boards["ai"].field[c] = s
    /\ \E f, g \in Fleets : C13_Other(boards["ai"], f).field # C13_Other(boards["ai"], g).field

\* C15: in every step of the loop in which shot was called, a rejected target
\* leaves both boards, the turn counter and the loop where they were, so that
\* the same player is asked again; the turn counter changes and the loop ends
\* only in a step whose shot was accepted; a completed move adds exactly one
\* dot, not shot at before, to the shot_dots of the enemy board; and the value
\* move returns is True if and only if the accepted shot printed "Ship
\* wounded!" or "Ship destroyed!".
C15_Step ==
    pc = "loop" /\ pc' # "exit" =>
        LET e == enemy(mover(num))
        IN  /\ result'.op = "shot"
            /\ result'.raised # "" =>
                   /\ result'.raised \in {"BoardOutException", "BoardUsedException"}
                   /\ boards' = boards
                   /\ num' = num
                   /\ pc' = "loop"
            /\ num' # num \/ pc' # "loop" => result'.raised = ""
            /\ result'.raised = "" =>
                   /\ \E c \in Cells :
                          /\ ~BagIn(c, boards[e].shot_dots)
                          /\ boards'[e].shot_dots = boards[e].shot_dots (+) SetToBag({c})
                   /\ result'.ret <=> result'.printed \in {"Ship wounded!", "Ship destroyed!"}
                   /\ ~result'.ret <=> result'.printed = "Miss!"

C15_MoveRetriesUntilAccepted == [][C15_Step]_vars

\* the computer's target was rejected and it is still the computer's move
C15_Witness ==
    /\ pc = "loop"
    /\ mover(num) = "ai"
    /\ result.op = "shot"
    /\ result.raised = "BoardUsedException"

\* C17: in every step of the loop in which shot was called, the board of the
\* player who moves (field, shot_dots, busy_dots, the ships and their lives,
\* live_ships) is left as it was; an accepted shot changes the other board,
\* and so exactly one board; a rejected shot changes none.
C17_Step ==
    pc = "loop" /\ pc' # "exit" =>
        LET own == mover(num)
            other == CHOOSE s \in Sides : s # own
        IN  /\ boards'[own] = boards[own]
            /\ result'.raised = "" => boards'[other] # boards[other]
            /\ result'.raised # "" => boards'[other] = boards[other]

C17_MoveChangesEnemyBoardOnly == [][C17_Step]_vars

\* both boards were shot at, and the last shot, the computer's, sank a ship
C17_Witness ==
    /\ result.op = "shot"
    /\ result.printed = "Ship destroyed!"
    /\ boards["user"].live_ships < Len(boards["user"].ships)
    /\ boards["ai"].shot_dots # EmptyBag
    /\ mover(num) = "ai"

\* C19: on both boards of every state of the game (the ships placed first,
\* then shots only), a cell is marked as hit if and only if it is in shot_dots
\* and a dot of a ship, as miss if and only if it is in shot_dots and a dot of
\* no ship, and as ship if and only if it is a dot of a ship and not in
\* shot_dots; and a shot at any cell leaves every other cell marked as ship
\* marked so, the cells contour visits when the shot sinks a ship included.
C19_FieldAgreesWithShipsAndShots ==
    \A s \in Sides :
        LET b == boards[s]
            occupied == Occupied(b)
        IN  /\ \A c \in Cells :
                   /\ b.field[c] = _HIT_SIGN
                          <=> BagIn(c, b.shot_dots) /\ c \in occupied
                   /\ b.field[c] = _LOSE_SIGN
                          <=> BagIn(c, b.shot_dots) /\ c \notin occupied
                   /\ b.field[c] = _SHIP_SIGN
                          <=> c \in occupied /\ ~BagIn(c, b.shot_dots)
            /\ \A d \in Cells :
                   LET after == shot(b, d).board.field
                   IN  \A c \in Cells \ {d} :
                           b.field[c] = _SHIP_SIGN => after[c] = _SHIP_SIGN

\* the user's board holds a sunk ship with contour cells around it, a ship
\* that was hit and is afloat, a miss, and ship cells not shot at
C19_Witness ==
    /\ pc = "loop"
    /\ \A s \in Signs : \E c \in Cells : boards["user"].field[c] = s
    /\ \E i, j \in 1 .. Len(boards["user"].ships) :
           /\ boards["user"].ships[i].lives = 0
           /\ boards["user"].ships[j].lives > 0
           /\ boards["user"].ships[j].lives < boards["user"].ships[j].length

\* C20: on both boards of every state of the game, a cell marked as contour is
\* a dot of no ship and is not in shot_dots; a shot at it is accepted, prints
\* "Miss!", returns False and marks the cell as miss; and when that shot is the
\* move of the player whose enemy board it is, the loop goes on and the other
\* player moves next.
C20_ContourCellIsOpenWater ==
    \A s \in Sides :
        \A c \in Cells :
            boards[s].field[c] = _CONTOUR_SIGN =>
                LET r == shot(boards[s], c)
                    n == IF enemy(mover(num)) = s THEN num ELSE num + 1
                    after == loopAfterMove([boards EXCEPT ![s] = r.board], n, r.ret)
                IN  /\ c \notin Occupied(boards[s])
                    /\ ~BagIn(c, boards[s].shot_dots)
                    /\ r.raised = ""
                    /\ r.printed = "Miss!"
                    /\ r.ret = FALSE
                    /\ r.board.field[c] = _LOSE_SIGN
                    /\ BagIn(c, r.board.shot_dots)
                    /\ pc = "loop" => /\ after.pc = "loop"
                                      /\ mover(n) = enemy(s)
                                      /\ mover(after.num) = s

\* the computer, which shoots at the cells in the order of their ranks, missed
\* at a cell next to a ship it had sunk before: every dot of the ship has a
\* lower rank, no cell of a higher rank was shot at, and the user moves next
C20_Witness ==
    /\ pc = "loop"
    /\ mover(num) = "user"
    /\ result.printed = "Miss!"
    /\ \E i \in 1 .. Len(boards["user"].ships) :
           /\ boards["user"].ships[i].lives = 0
           /\ \E c \in C14_Ring(boards["user"].ships[i]) :
                  /\ boards["user"].field[c] = _LOSE_SIGN
                  /\ \A e \in DotSet(boards["user"].ships[i]) : rank(e) < rank(c)
                  /\ \A e \in Cells : BagIn(e, boards["user"].shot_dots) <=> rank(e) <= rank(c)

\* C21: whenever the loop is about to make a move, some cell of the enemy
\* board is not in shot_dots, and shot accepts it; on both boards shot_dots
\* never holds more than the 36 cells, and a board all of whose cells were
\* shot at has live_ships = 0, with the loop over.
C21_MoveHasTarget ==
    /\ pc = "loop" =>
           \E c \in Cells :
               /\ ~BagIn(c, boards[enemy(mover(num))].shot_dots)
               /\ shot(boards[enemy(mover(num))], c).raised = ""
    /\ \A s \in Sides :
           /\ BagCardinality(boards[s].shot_dots) <= Size * Size
           /\ (\A c \in Cells : BagIn(c, boards[s].shot_dots)) =>
                  boards[s].live_ships = 0 /\ pc = "over"

\* the user is about to move and the computer's board has one cell left that
\* was not shot at, a dot of its last ship afloat
C21_Witness ==
    /\ pc = "loop"
    /\ mover(num) = "user"
    /\ BagCardinality(boards["ai"].shot_dots) = Size * Size - 1
    /\ boards["ai"].live_ships = 1


\* C22: when the user never enters "stop" and a player who is asked for a
\* target keeps getting asked only until one is accepted, the loop ends; and
\* whenever it has ended, exactly one of the two boards has live_ships = 0,
\* the board of the player who is not declared the winner.
C22_GameTerminates ==
    /\ [](pc # "exit") => <>(pc = "over")
    /\ [](pc = "over" =>
              /\ (boards["user"].live_ships = 0) # (boards["ai"].live_ships = 0)
              /\ won = IF boards["ai"].live_ships = 0 THEN "User won!" ELSE "Computer won!")

\* the user won with the last cell of the computer's board
C22_Witness ==
    /\ pc = "over"
    /\ won = "User won!"
    /\ boards["ai"].live_ships = 0
    /\ boards["user"].live_ships > 0
    /\ BagCardinality(boards["ai"].shot_dots) = Size * Size
=============================================================================
